---- MODULE Spec2Model ----
(***************************************************************************)
(* A model of the MCP tool server: path validation (config.py and the      *)
(* legacy server.py), the @tool executor and the filesystem tools          *)
(* (toolsets/base.py, toolsets/system.py, toolsets/gmail.py) and the       *)
(* persistent shell session manager (toolsets/system.py).                  *)
(*                                                                         *)
(* Three specifications share the module's variables:                      *)
(*   SpecPath   the two validate_path functions applied to bounded inputs  *)
(*   SpecTool   tool calls through the executor over a small filesystem    *)
(*   SpecShell  concurrent persistent_shell calls, the shell processes     *)
(*              and the clock                                              *)
(***************************************************************************)
EXTENDS Integers, Sequences, FiniteSets, TLC

VARIABLES
    \* ---- path validation (SpecPath) ----
    vpPath,        \* the path argument under validation
    vpNew,         \* outcome of Config.validate_path, or NotRun
    vpLegacy,      \* outcome of the legacy server's validate_path, or NotRun
    \* ---- tools behind the executor (SpecTool) ----
    fs,            \* filesystem: path of a file -> NoFile or its content
    toolCall,      \* the last tool invocation (name and arguments)
    toolRaw,       \* how the wrapped function of the last invocation ended
    toolOutcome,   \* what the executor did: a returned string or an escaped exception
    touched,       \* canonical paths the last call read, created, modified or deleted
    \* ---- persistent shell (SpecShell) ----
    shellSessions, \* _shell_sessions: session id -> process id
    lastActivity,  \* _session_last_activity: session id -> time
    shellLock,     \* _shell_lock: the thread holding it, or NoThread
    pc,            \* per thread: position inside persistent_shell, or idle
    call,          \* per thread: arguments and locals of the call in progress
    result,        \* the string a call returns, in the state it returns to
    procs,         \* process id -> shell process (alive, terminated, pending stdin lines)
    scratch,       \* temp file id -> whether the file exists, and the tokens in it
    now,           \* time.time(), in seconds
    nextSid,       \* uuid4 source: number of ids generated so far
    nextPid,       \* number of processes spawned so far
    nextFile,      \* number of temp files created so far
    ncalls,        \* number of persistent_shell calls that have taken the lock so far
    hist,          \* history of the session manager (observations for the properties)
    \* ---- legacy HTTP server (SpecHttp) ----
    httpReq,       \* the last request: method, path, headers, body
    httpResp,      \* what the client got: a response, or nothing (the handler raised)
    httpRan,       \* the tool implementation the last request ran, or "none"
    \* ---- tool and toolset registries (SpecRegistry) ----
    allTools,      \* _all_tools: tool name -> registered tool
    toolsets,      \* _toolsets: toolset name -> list of registered tools
    regCount,      \* number of RegisteredTool objects created so far
    regOp,         \* the last registry operation and what it returned
    regHist,       \* per name, the tool and the toolset registered last under it,
                   \* and the names registered more than once
    \* ---- integration clients (SpecInteg) ----
    integ,         \* per integration: the client and error singletons, and the
                   \* error its getter returned first
    integOp,       \* the last getter call and what it returned
    \* ---- concurrent save_file calls (SpecSave) ----
    saver          \* per thread: position inside save_file, arguments, result

pathVars  == <<vpPath, vpNew, vpLegacy>>
toolVars  == <<fs, toolCall, toolRaw, toolOutcome, touched>>
shellVars == <<shellSessions, lastActivity, shellLock, pc, call, result, procs,
               scratch, now, nextSid, nextPid, nextFile, ncalls, hist>>
httpVars  == <<httpReq, httpResp, httpRan>>
regVars   == <<allTools, toolsets, regCount, regOp, regHist>>
integVars == <<integ, integOp>>
saveVars  == <<saver>>
vars      == <<pathVars, toolVars, shellVars, httpVars, regVars, integVars, saveVars>>

NotRun == [kind |-> "notrun"]
NoFile == "<absent>"

(***************************************************************************)
(* Paths.  A path string is modelled by its components, each a sequence    *)
(* of characters, so that a prefix test on the string (startswith) and a   *)
(* prefix test on the components (relative_to) are different tests.        *)
(***************************************************************************)
MaxDepth == 3

cH   == <<"h">>
cU   == <<"u">>
cU2  == <<"u", "2">>
cE   == <<"e">>
cS   == <<"s">>
cL   == <<"l">>
cF   == <<"f">>
cF1  == <<"f", "_", "1">>
cUp  == <<".", ".">>

Names == {cH, cU, cU2, cE, cS, cL, cUp}

\* The world the server runs in: HOME, the working directory of the server
\* process, the MCP_BASE_DIR setting (default "~") and the symbolic links.
HomeDir == <<cH, cU>>
CwdDir  == <<cH>>
BaseDirSetting == [kind |-> "home", comps |-> <<>>]

\* /h/u/l -> /e (a link under the root pointing outside it);
\* /h/u2/l -> /h/u/s (a link outside the root pointing into it).
Symlinks == (<<cH, cU, cL>> :> <<cE>>) @@ (<<cH, cU2, cL>> :> <<cH, cU, cS>>)

MaxLinkDepth == 4

RECURSIVE SeqsUpTo(_, _)
SeqsUpTo(S, n) ==
    IF n = 0 THEN {<<>>}
    ELSE LET shorter == SeqsUpTo(S, n - 1)
         IN  shorter \cup {Append(s, x) : s \in {t \in shorter : Len(t) = n - 1}, x \in S}

PathArgs == [kind : {"abs", "home", "rel"}, comps : SeqsUpTo(Names, MaxDepth)]

\* os.path.expanduser followed by making the path absolute: "~" is replaced by
\* HOME, a relative path starts at the working directory.
ExpandUser(p) ==
    CASE p.kind = "home" -> HomeDir \o p.comps
      [] p.kind = "rel"  -> CwdDir \o p.comps
      [] OTHER           -> p.comps

Parent(parts) == IF parts = <<>> THEN <<>> ELSE SubSeq(parts, 1, Len(parts) - 1)

\* os.path.realpath / Path.resolve(): components are taken left to right on
\* the already resolved prefix; ".." drops the last resolved component; a
\* component that names a symbolic link is replaced by the link's resolved target.
RECURSIVE ResolveFrom(_, _, _)
ResolveFrom(cur, comps, fuel) ==
    IF comps = <<>> THEN cur
    ELSE LET c    == Head(comps)
             rest == Tail(comps)
             cand == Append(cur, c)
         IN  IF c = cUp THEN ResolveFrom(Parent(cur), rest, fuel)
             ELSE IF cand \in DOMAIN Symlinks /\ fuel > 0
                  THEN ResolveFrom(ResolveFrom(<<>>, Symlinks[cand], fuel - 1), rest, fuel)
                  ELSE ResolveFrom(cand, rest, fuel)

Resolve(p) == ResolveFrom(<<>>, ExpandUser(p), MaxLinkDepth)

\* Config.BASE_DIR: resolved once, when the class is created.
BASE_DIR == Resolve(BaseDirSetting)

\* The string of an absolute path: "/" before every component.
RECURSIVE PathStr(_)
PathStr(parts) ==
    IF parts = <<>> THEN <<"/">>
    ELSE IF Len(parts) = 1 THEN <<"/">> \o parts[1]
    ELSE PathStr(Parent(parts)) \o <<"/">> \o parts[Len(parts)]

\* str.startswith
StartsWith(s, prefix) ==
    Len(s) >= Len(prefix) /\ SubSeq(s, 1, Len(prefix)) = prefix

\* PurePath.relative_to: the other path's parts are the first parts of this one.
RelativeToByChars(parts, base) == StartsWith(PathStr(parts), PathStr(base))
RelativeTo(parts, base) ==
    Len(parts) >= Len(base) /\ SubSeq(parts, 1, Len(base)) = base

Ok(parts) == [kind |-> "ok", path |-> parts]
Raised(cls) == [kind |-> "raise", exc |-> cls]

\* Config.validate_path
ValidatePath(p) ==
    LET resolved == Resolve(p)
    IN  IF RelativeTo(resolved, BASE_DIR) THEN Ok(resolved) ELSE Raised("ValueError")

\* server.py validate_path (the legacy server)
LegacyValidatePath(p) ==
    LET resolved      == PathStr(Resolve(p))
        base_resolved == PathStr(Resolve(BaseDirSetting))
    IN  IF StartsWith(resolved, base_resolved) THEN Ok(Resolve(p)) ELSE Raised("ValueError")

(***************************************************************************)
(* The filesystem the tools act on.  The directories /, /h, /h/u (the      *)
(* root), /h/u2 and /e exist throughout; fs tracks the files in them.      *)
(***************************************************************************)
RootDir == <<cH, cU>>
SibDir  == <<cH, cU2>>
OutDir  == <<cE>>

FixedDirs == {<<>>, <<cH>>, RootDir, SibDir, OutDir}
FsFiles   == {Append(d, n) : d \in {RootDir, SibDir, OutDir}, n \in {cF, cF1}}
Contents  == {"a", "b"}

Exists(f, p) == p \in FixedDirs \/ (p \in FsFiles /\ f[p] # NoFile)
IsDir(f, p)  == p \in FixedDirs
IsFile(f, p) == p \in FsFiles /\ f[p] # NoFile

\* The path arguments the tools are called with.
pF       == [kind |-> "abs",  comps |-> <<cH, cU, cF>>]
pF1      == [kind |-> "home", comps |-> <<cF1>>]
pRoot    == [kind |-> "home", comps |-> <<>>]
pUp      == [kind |-> "abs",  comps |-> <<cH, cU, cUp, cU2, cF>>]
pLink    == [kind |-> "abs",  comps |-> <<cH, cU, cL, cF>>]
pLinkDir == [kind |-> "abs",  comps |-> <<cH, cU, cL>>]
pSibDir  == [kind |-> "abs",  comps |-> <<cH, cU2>>]
NoPath   == [kind |-> "none", comps |-> <<>>]

FileArgs == {pF, pF1, pRoot, pUp, pLink}
DirArgs  == {pRoot, pLinkDir, pSibDir}

\* Strings the tools return: a leading marker, the message, and whether a
\* traceback follows.
Text(head, body) == [head |-> head, body |-> body, trace |-> FALSE]
Returned(v)      == [kind |-> "return", value |-> v, exc |-> "none"]
Throws(cls)      == [kind |-> "raise", value |-> Text("", ""), exc |-> cls]

\* What a wrapped function did to the filesystem and how it ended.
Effect(raw, f, t) == [raw |-> raw, fs |-> f, touched |-> t]

\* Exception classes that derive from Exception; SystemExit, KeyboardInterrupt
\* and GeneratorExit derive from BaseException only.
IsException(cls) == cls \notin {"SystemExit", "KeyboardInterrupt", "GeneratorExit"}

\* tool.decorator.executor: the wrapped function's return value as a string,
\* or "Error: <message>" and the traceback when it raised an Exception.
Executor(raw) ==
    IF raw.kind = "return" THEN Returned(raw.value)
    ELSE IF IsException(raw.exc)
         THEN Returned([head |-> "Error: ", body |-> raw.exc, trace |-> TRUE])
         ELSE raw

\* func(**kwargs) with a mapping that does not fit the signature, or a path
\* argument that is no string, raises TypeError before the body acts.
BadShape(f) == Effect(Throws("TypeError"), f, {})

\* list_directory
ListDirectory(f, path) ==
    LET v == ValidatePath(path)
    IN  IF v.kind = "raise" THEN Effect(Throws(v.exc), f, {})
        ELSE IF ~IsDir(f, v.path)
             THEN Effect(Returned(Text("Error: ", "Not a directory")), f, {v.path})
        ELSE IF \A p \in FsFiles : Parent(p) = v.path => f[p] = NoFile
             THEN Effect(Returned(Text("", "Directory is empty")), f, {v.path})
        ELSE Effect(Returned(Text("", "Contents of")), f, {v.path})

\* read_file
ReadFile(f, path) ==
    LET v == ValidatePath(path)
    IN  IF v.kind = "raise" THEN Effect(Throws(v.exc), f, {})
        ELSE IF ~IsFile(f, v.path)
             THEN Effect(Returned(Text("Error: ", "Not a file")), f, {v.path})
        ELSE Effect(Returned(Text("", f[v.path])), f, {v.path})

\* save_file.  The parent of every path under the root exists here, so
\* mkdir(parents=True, exist_ok=True) changes nothing.
SaveFile(f, path, content, overwrite) ==
    LET v == ValidatePath(path)
    IN  IF v.kind = "raise" THEN Effect(Throws(v.exc), f, {})
        ELSE IF Exists(f, v.path) /\ ~overwrite
             THEN Effect(Returned(Text("Error: ", "already exists")), f, {v.path})
        ELSE IF IsDir(f, v.path)
             THEN Effect(Throws("IsADirectoryError"), f, {v.path})
        ELSE LET g      == [f EXCEPT ![v.path] = content]
                 action == IF Exists(g, v.path) THEN "Overwrote" ELSE "Created"
             IN  Effect(Returned(Text(action, "file")), g, {v.path})

\* copy_file.  shutil.copy2 and shutil.move of a directory source, onto the
\* source itself or into a directory holding the same name all raise.
CopyFile(f, source, destination, move, overwrite) ==
    LET s == ValidatePath(source)
        d == ValidatePath(destination)
    IN  IF s.kind = "raise" THEN Effect(Throws(s.exc), f, {})
        ELSE IF d.kind = "raise" THEN Effect(Throws(d.exc), f, {})
        ELSE IF ~Exists(f, s.path)
             THEN Effect(Returned(Text("Error: ", "Source not found")), f, {s.path})
        ELSE IF Exists(f, d.path) /\ ~overwrite
             THEN Effect(Returned(Text("Error: ", "Destination exists")), f, {s.path, d.path})
        ELSE IF IsDir(f, s.path)
             THEN Effect(Throws(IF move THEN "shutil.Error" ELSE "IsADirectoryError"),
                         f, {s.path, d.path})
        ELSE IF IsDir(f, d.path)
             THEN \* the target is d/<name of s>: s itself, as s lies in the root
                  Effect(Throws(IF move THEN "shutil.Error" ELSE "SameFileError"),
                         f, {s.path, d.path})
        ELSE IF s.path = d.path
             THEN IF move THEN Effect(Returned(Text("", "Moved")), f, {s.path})
                  ELSE Effect(Throws("SameFileError"), f, {s.path})
        ELSE IF move
             THEN Effect(Returned(Text("", "Moved")),
                         [f EXCEPT ![d.path] = f[s.path], ![s.path] = NoFile],
                         {s.path, d.path})
        ELSE Effect(Returned(Text("", "Copied")),
                    [f EXCEPT ![d.path] = f[s.path]], {s.path, d.path})

\* execute_python: exec(code) under try / except Exception.
PyCodes == {"print", "raise ValueError", "sys.exit"}
ExecutePython(f, code) ==
    LET ran == CASE code = "print"            -> Returned(Text("", "output"))
                 [] code = "raise ValueError" -> Throws("ValueError")
                 [] OTHER                     -> Throws("SystemExit")
    IN  IF ran.kind = "raise" /\ IsException(ran.exc)
        THEN Effect(Returned(Text("Error executing Python code:", ran.exc)), f, {})
        ELSE Effect(ran, f, {})

\* GmailClient.download_attachment: the file goes to the first free name among
\* <name>, <name>_1, ... in the download directory.
AttachmentData == "a"
DownloadAttachment(f, dir) ==
    LET free == {n \in {cF, cF1} : ~Exists(f, Append(dir, n))}
        name == IF cF \in free THEN cF ELSE cF1
    IN  IF free = {} THEN Effect(Returned(Text("", "Download complete")), f, {dir})
        ELSE Effect(Returned(Text("", "Download complete")),
                    [f EXCEPT ![Append(dir, name)] = AttachmentData],
                    {dir, Append(dir, name)})

\* download_email_attachments
FilenamesArgs == {"json list", "json other", "not json"}
DownloadEmailAttachments(f, clientReady, download_path, filenames, attached) ==
    IF ~clientReady THEN Effect(Throws("RuntimeError"), f, {})
    ELSE IF filenames = "json other"
         THEN Effect(Returned(Text("Error: ", "filenames must be a JSON array")), f, {})
    ELSE IF filenames = "not json"
         THEN Effect(Returned(Text("Error: ", "Invalid JSON for filenames")), f, {})
    ELSE IF ~attached
         THEN Effect(Returned(Text("", "Download complete")), f, {})
    ELSE DownloadAttachment(f, ResolveFrom(<<>>, ExpandUser(download_path), MaxLinkDepth))

(***************************************************************************)
(* Tool calls: each action is one call of a registered tool's executor.    *)
(***************************************************************************)
Invocation(tool, shape, path, path2) ==
    [tool |-> tool, shape |-> shape, path |-> path, path2 |-> path2]

Invoke(inv, eff) ==
    /\ toolCall' = inv
    /\ toolRaw' = eff.raw
    /\ toolOutcome' = Executor(eff.raw)
    /\ fs' = eff.fs
    /\ touched' = eff.touched
    /\ UNCHANGED <<pathVars, shellVars, httpVars, regVars, integVars, saveVars>>

\* A call whose argument mapping does not fit the signature (TypeError from
\* func(**kwargs)), or whose path argument is no string (TypeError from
\* os.path.expanduser).
BadShapes == {"missing", "extra", "badtype"}

CallListDirectory ==
    \/ \E path \in FileArgs :
        Invoke(Invocation("list_directory", "ok", path, NoPath), ListDirectory(fs, path))
    \/ \E shape \in BadShapes :
        Invoke(Invocation("list_directory", shape, NoPath, NoPath), BadShape(fs))

CallReadFile ==
    \/ \E path \in FileArgs :
        Invoke(Invocation("read_file", "ok", path, NoPath), ReadFile(fs, path))
    \/ \E shape \in BadShapes :
        Invoke(Invocation("read_file", shape, NoPath, NoPath), BadShape(fs))

CallSaveFile ==
    \/ \E path \in FileArgs, content \in Contents, overwrite \in BOOLEAN :
        Invoke(Invocation("save_file", "ok", path, NoPath),
               SaveFile(fs, path, content, overwrite))
    \/ \E shape \in BadShapes :
        Invoke(Invocation("save_file", shape, NoPath, NoPath), BadShape(fs))

CallCopyFile ==
    \/ \E source \in FileArgs, destination \in FileArgs, move \in BOOLEAN, overwrite \in BOOLEAN :
        Invoke(Invocation("copy_file", "ok", source, destination),
               CopyFile(fs, source, destination, move, overwrite))
    \/ \E shape \in BadShapes :
        Invoke(Invocation("copy_file", shape, NoPath, NoPath), BadShape(fs))

CallExecutePython ==
    \/ \E code \in PyCodes :
        Invoke(Invocation("execute_python", "ok", NoPath, NoPath), ExecutePython(fs, code))
    \/ \E shape \in {"missing", "extra"} :
        Invoke(Invocation("execute_python", shape, NoPath, NoPath), BadShape(fs))

CallDownloadEmailAttachments ==
    \/ \E clientReady \in BOOLEAN, download_path \in DirArgs,
          filenames \in FilenamesArgs, attached \in BOOLEAN :
        Invoke(Invocation("download_email_attachments", "ok", download_path, NoPath),
               DownloadEmailAttachments(fs, clientReady, download_path, filenames, attached))
    \/ \E shape \in {"missing", "extra"} :
        Invoke(Invocation("download_email_attachments", shape, NoPath, NoPath), BadShape(fs))

ToolInit ==
    /\ fs = [p \in FsFiles |-> IF p = Append(RootDir, cF) THEN "a" ELSE NoFile]
    /\ toolCall = NotRun
    /\ toolRaw = NotRun
    /\ toolOutcome = NotRun
    /\ touched = {}

ToolNext ==
    \/ CallListDirectory
    \/ CallReadFile
    \/ CallSaveFile
    \/ CallCopyFile
    \/ CallExecutePython
    \/ CallDownloadEmailAttachments

(***************************************************************************)
(* Path validation: the argument is drawn at the start, each of the two    *)
(* validate_path functions is then applied to it.                          *)
(***************************************************************************)
PathInit ==
    /\ vpPath \in PathArgs
    /\ vpNew = NotRun
    /\ vpLegacy = NotRun

PathIdle ==
    /\ vpPath = NoPath
    /\ vpNew = NotRun
    /\ vpLegacy = NotRun

CallValidatePath ==
    /\ vpNew = NotRun
    /\ vpNew' = ValidatePath(vpPath)
    /\ UNCHANGED <<vpPath, vpLegacy, toolVars, shellVars, httpVars, regVars, integVars, saveVars>>

CallLegacyValidatePath ==
    /\ vpLegacy = NotRun
    /\ vpLegacy' = LegacyValidatePath(vpPath)
    /\ UNCHANGED <<vpPath, vpNew, toolVars, shellVars, httpVars, regVars, integVars, saveVars>>

PathNext ==
    \/ CallValidatePath
    \/ CallLegacyValidatePath

(***************************************************************************)
(* The persistent shell session manager (persistent_shell).                *)
(*                                                                         *)
(* A call runs in a server thread: it takes _shell_lock and creates or     *)
(* looks up the session, writes its command line, polls the                *)
(* scratch file and finishes.  The shell processes, the clock and the      *)
(* death of a process are the environment.                                 *)
(***************************************************************************)
MaxSessions == 2
MaxCalls    == 3

IdleLimit == 3600
NoSid     == 0
NoThread  == 0
BogusSid  == 0 - 1     \* a non-empty id the server never issued

Threads  == {1, 2}
Commands == {"", "ls", "echo marker"}
\* A command argument that is no string (None, a number): it has no strip().
NotAString == "<None>"
\* The instants at which the clock is read: they lie a second, an idle limit
\* and a second more than an idle limit apart.
Clock    == {0, 1, IdleLimit + 1}
\* The timeout arguments: those that run out at a later instant of the clock,
\* and one longer than the idle limit.
Timeouts == {later - now : later \in {i \in Clock : i > now}} \cup {IdleLimit + 1}

\* str.strip() of the command argument
Strip(command) == IF command \in {"", " "} THEN "" ELSE command

\* Scratch file contents are sequences of tokens: a piece of command output,
\* or the done marker of a session, __DONE_<session id>__.
TextTok     == [kind |-> "text", sid |-> NoSid]
Marker(sid) == [kind |-> "marker", sid |-> sid]

HasMarker(content, sid) == \E i \in 1 .. Len(content) : content[i] = Marker(sid)
\* output.replace(done_marker, "").strip()
StripMarker(content, sid) ==
    LET Keep(tok) == tok # Marker(sid) IN SelectSeq(content, Keep)

\* What the shell writes to the scratch file when it runs a command line
\* "<command> > file 2>&1; echo <marker>": the command's output.  The echo of
\* the marker comes after the redirection and goes to the process's stdout.
CommandOutput(line) ==
    CASE line.command = "ls"          -> <<TextTok>>
      [] line.command = "echo marker" -> <<Marker(line.sid)>>
      [] OTHER                        -> <<>>

NoCall ==
    [command |-> "", timeout |-> 0, is_new |-> FALSE, sid |-> NoSid, file |-> 0,
     start_time |-> 0, output |-> <<>>]

\* The strings persistent_shell returns.
Msg(kind, sid, text, timedOut) ==
    [kind |-> kind, sid |-> sid, text |-> text, timed_out |-> timedOut]
NoResult == Msg("notrun", NoSid, <<>>, FALSE)

\* A shell process: whether it runs, whether terminate() ended it, and the
\* command lines written to its input that it has not run yet.
NewProc == [alive |-> TRUE, terminated |-> FALSE, stdin |-> <<>>]

Put(f, k, v)   == [x \in DOMAIN f \cup {k} |-> IF x = k THEN v ELSE f[x]]
Without(f, S)  == [x \in DOMAIN f \ S |-> f[x]]

\* Popen.terminate()
NoTerminate(ps, pids) == ps
Terminate(ps, pids) ==
    [p \in DOMAIN ps |-> IF p \in pids /\ ps[p].alive
                         THEN [NewProc EXCEPT !.alive = FALSE, !.terminated = TRUE]
                         ELSE ps[p]]

\* with _shell_lock: a thread enters when no thread holds the lock.
AcquireUnlocked(lock) == TRUE
CanAcquire(lock) == lock = NoThread

\* is_new = not session_id
IsNewOrUnknown(sessions, session_id) == session_id = NoSid \/ session_id \notin DOMAIN sessions
IsNew(sessions, session_id) == session_id = NoSid

\* str(uuid.uuid4()): an id that was never generated before.
ReuseFreeSessionId(sessions, n) ==
    IF \E i \in 1 .. n : i \notin DOMAIN sessions
    THEN CHOOSE i \in 1 .. n : i \notin DOMAIN sessions /\ \A j \in 1 .. (i - 1) : j \in DOMAIN sessions
    ELSE n + 1
NewSessionId(sessions, n) == n + 1

\* del _shell_sessions[session_id] when process.poll() is not None
KeepExited(sessions, sid) == sessions
ReapExited(sessions, sid) == Without(sessions, {sid})

\* process.stdin.write(full_cmd); process.stdin.flush()
WriteFirst(stdin, line) == <<line>> \o stdin
WriteLine(stdin, line) == Append(stdin, line)

\* _cleanup_old_sessions
CleanupOldSessions(sessions, activity, current_time) ==
    LET old == {s \in DOMAIN activity : current_time - activity[s] > IdleLimit}
    IN  [sessions   |-> Without(sessions, old),
         activity   |-> Without(activity, old),
         terminated |-> {sessions[s] : s \in old \cap DOMAIN sessions}]

Return(t, msg) ==
    /\ result' = msg
    /\ pc' = [pc EXCEPT ![t] = "idle"]
    /\ call' = [call EXCEPT ![t] = NoCall]
    /\ shellLock' = NoThread

\* A request arrives: persistent_shell is called in a free server thread (the
\* lowest one, the threads being alike) and waits at "with _shell_lock".  Its
\* arguments are read when it enters.
Request(t) ==
    /\ pc[t] = "idle"
    /\ \A u \in Threads : u < t => pc[u] # "idle"
    /\ ncalls + Cardinality({u \in Threads : pc[u] = "lock"}) < MaxCalls
    /\ pc' = [pc EXCEPT ![t] = "lock"]
    /\ UNCHANGED <<shellSessions, lastActivity, shellLock, call, procs, scratch, now,
                   nextSid, nextPid, nextFile, ncalls, hist>>
    /\ result' = NoResult
    /\ UNCHANGED <<pathVars, toolVars, httpVars, regVars, integVars, saveVars>>

SessionArgs == {NoSid, BogusSid} \cup (1 .. nextSid)

Args(command, timeout, is_new, sid) ==
    [NoCall EXCEPT !.command = command, !.timeout = timeout, !.is_new = is_new, !.sid = sid]

\* Lines 303-339: the call of thread t takes the lock.  With an empty session
\* id it spawns a shell and registers it under a new id, and returns at once
\* when the command is blank; with a session id it looks the session up and
\* returns when the id is unknown or the process has exited.  With an empty
\* session id and a command that is no string, command.strip() raises at line
\* 328, outside the try block and after the session has been registered: the
\* exception leaves the function and the lock is released.
PersistentShell(t, command, session_id, timeout) ==
    /\ pc[t] = "lock"
    /\ CanAcquire(shellLock)
    /\ ncalls' = ncalls + 1
    /\ IF IsNew(shellSessions, session_id)
       THEN /\ nextSid < MaxSessions
            /\ LET sid == NewSessionId(shellSessions, nextSid)
                   pid == nextPid + 1
               IN  /\ procs' = Put(procs, pid, NewProc)
                   /\ shellSessions' = Put(shellSessions, sid, pid)
                   /\ lastActivity' = Put(lastActivity, sid, now)
                   /\ nextSid' = IF sid > nextSid THEN sid ELSE nextSid
                   /\ nextPid' = pid
                   /\ hist' = [hist EXCEPT !.everUsed = @ \cup {sid},
                                           !.spawned = Put(@, sid, pid)]
                   /\ IF command = NotAString
                      THEN Return(t, Msg("raised", NoSid, <<>>, FALSE))
                      ELSE IF Strip(command) = ""
                      THEN Return(t, Msg("created", sid, <<>>, FALSE))
                      ELSE /\ call' = [call EXCEPT ![t] = Args(command, timeout, TRUE, sid)]
                           /\ pc' = [pc EXCEPT ![t] = "exec"]
                           /\ shellLock' = t
                           /\ result' = NoResult
       ELSE /\ IF session_id \notin DOMAIN shellSessions
               THEN /\ Return(t, Msg("not_found", session_id, <<>>, FALSE))
                    /\ UNCHANGED <<shellSessions, hist>>
               ELSE IF ~procs[shellSessions[session_id]].alive
               THEN /\ shellSessions' = ReapExited(shellSessions, session_id)
                    /\ hist' = [hist EXCEPT !.told = @ \cup {session_id}]
                    /\ Return(t, Msg("exited", NoSid, <<>>, FALSE))
               ELSE /\ call' = [call EXCEPT ![t] = Args(command, timeout, FALSE, session_id)]
                    /\ pc' = [pc EXCEPT ![t] = "exec"]
                    /\ shellLock' = t
                    /\ result' = NoResult
                    /\ UNCHANGED <<shellSessions, hist>>
            /\ UNCHANGED <<lastActivity, procs, nextSid, nextPid>>
    /\ UNCHANGED <<scratch, now, nextFile>>
    /\ UNCHANGED <<pathVars, toolVars, httpVars, regVars, integVars, saveVars>>

\* The waiting call of thread t enters with the arguments it was made with.
\* A command that is no string is tried with an empty session id, where
\* command.strip() is called on it; with a session id it is only formatted
\* into the command line, like any text.
Enter(t) ==
    \E command \in Commands \cup {NotAString}, session_id \in SessionArgs,
       timeout \in Timeouts :
        /\ command = NotAString => session_id = NoSid
        /\ PersistentShell(t, command, session_id, timeout)

\* Lines 341-361: the activity time is refreshed, the scratch file is created
\* and the command line is written to the shell.  Creating the file may raise
\* OSError, and writing to a process that has exited raises BrokenPipeError;
\* the handler at 398-408 answers both by terminating and removing the session.
Exec(t) ==
    /\ pc[t] = "exec"
    /\ \E created \in BOOLEAN :
        LET sid  == call[t].sid
            pid  == shellSessions[sid]
            file == nextFile + 1
            line == [command |-> call[t].command, file |-> file, sid |-> sid, cno |-> ncalls]
        IN  /\ IF created
               THEN /\ nextFile' = file
                    /\ scratch' = Put(scratch, file, [exists |-> TRUE, content |-> <<>>])
               ELSE UNCHANGED <<nextFile, scratch>>
            /\ IF created /\ procs[pid].alive
               THEN /\ lastActivity' = Put(lastActivity, sid, now)
                    /\ procs' = [procs EXCEPT ![pid].stdin = WriteLine(@, line)]
                    /\ call' = [call EXCEPT ![t].file = file, ![t].start_time = now,
                                            ![t].output = <<>>]
                    /\ pc' = [pc EXCEPT ![t] = "poll"]
                    /\ result' = NoResult
                    /\ UNCHANGED <<shellSessions, shellLock, hist>>
               ELSE /\ procs' = Terminate(procs, {pid})
                    /\ shellSessions' = Without(shellSessions, {sid})
                    /\ lastActivity' = Without(lastActivity, {sid})
                    /\ hist' = [hist EXCEPT !.failed = @ \cup {sid}]
                    /\ Return(t, Msg("error", NoSid, <<>>, FALSE))
    /\ UNCHANGED <<now, nextSid, nextPid, ncalls>>
    /\ UNCHANGED <<pathVars, toolVars, httpVars, regVars, integVars, saveVars>>

\* Lines 363-379: one test of the loop condition and, if it holds, one round
\* of the loop: read the scratch file, stop on the marker, give up if the
\* process has exited, sleep.
Poll(t) ==
    /\ pc[t] = "poll"
    /\ LET sid     == call[t].sid
           pid     == shellSessions[sid]
           f       == scratch[call[t].file]
           content == f.content
           seen    == f.exists /\ (HasMarker(content, sid) \/ content # call[t].output)
           output  == IF seen THEN content ELSE call[t].output
       IN  IF ~(now - call[t].start_time < call[t].timeout)
           THEN /\ pc' = [pc EXCEPT ![t] = "finish"]
                /\ result' = NoResult
                /\ UNCHANGED <<call, shellSessions, shellLock, hist>>
           ELSE IF f.exists /\ HasMarker(content, sid)
           THEN /\ call' = [call EXCEPT ![t].output = output]
                /\ pc' = [pc EXCEPT ![t] = "finish"]
                /\ result' = NoResult
                /\ UNCHANGED <<shellSessions, shellLock, hist>>
           ELSE IF ~procs[pid].alive
           THEN /\ shellSessions' = Without(shellSessions, {sid})
                /\ hist' = [hist EXCEPT !.told = @ \cup {sid}]
                /\ Return(t, Msg("exited_unexpectedly", NoSid, <<>>, FALSE))
           ELSE /\ call' = [call EXCEPT ![t].output = output]
                /\ result' = NoResult
                /\ UNCHANGED <<pc, shellSessions, shellLock, hist>>
    /\ UNCHANGED <<lastActivity, procs, scratch, now, nextSid, nextPid, nextFile, ncalls>>
    /\ UNCHANGED <<pathVars, toolVars, httpVars, regVars, integVars, saveVars>>

\* Lines 381-396: the scratch file is removed, idle sessions are reaped and the
\* output is returned, with the time-out note when the time is up.
Finish(t) ==
    /\ pc[t] = "finish"
    /\ LET sid      == call[t].sid
           cleaned  == CleanupOldSessions(shellSessions, lastActivity, now)
           output   == StripMarker(call[t].output, sid)
           timedOut == now - call[t].start_time >= call[t].timeout
       IN  /\ scratch' = [scratch EXCEPT ![call[t].file] = [exists |-> FALSE, content |-> <<>>]]
           /\ shellSessions' = cleaned.sessions
           /\ lastActivity' = cleaned.activity
           /\ procs' = Terminate(procs, cleaned.terminated)
           /\ Return(t, Msg("output", IF call[t].is_new THEN sid ELSE NoSid, output, timedOut))
    /\ UNCHANGED <<now, nextSid, nextPid, nextFile, ncalls, hist>>
    /\ UNCHANGED <<pathVars, toolVars, httpVars, regVars, integVars, saveVars>>

\* The shell of process pid runs the next line of its input.
ShellRun(pid) ==
    /\ procs[pid].alive
    /\ procs[pid].stdin # <<>>
    /\ LET line == Head(procs[pid].stdin)
       IN  scratch' = [scratch EXCEPT ![line.file] =
                          [exists |-> TRUE, content |-> CommandOutput(line)]]
    /\ procs' = [procs EXCEPT ![pid].stdin = Tail(@)]
    /\ UNCHANGED <<shellSessions, lastActivity, shellLock, pc, call, now,
                   nextSid, nextPid, nextFile, ncalls, hist>>
    /\ result' = NoResult
    /\ UNCHANGED <<pathVars, toolVars, httpVars, regVars, integVars, saveVars>>

\* The process exits (it is killed from outside, or its shell ends).
ProcExit(pid) ==
    /\ procs[pid].alive
    /\ procs' = [procs EXCEPT ![pid] = [NewProc EXCEPT !.alive = FALSE]]
    /\ UNCHANGED <<shellSessions, lastActivity, shellLock, pc, call, scratch, now,
                   nextSid, nextPid, nextFile, ncalls, hist>>
    /\ result' = NoResult
    /\ UNCHANGED <<pathVars, toolVars, httpVars, regVars, integVars, saveVars>>

\* The time at which the poll loop of thread t gives up.
Deadline(t) == call[t].start_time + call[t].timeout

\* Time passes, to a later instant of the clock, while every thread is outside
\* the code, waiting for the lock or asleep in the poll loop (the statements
\* between take no time).  A poll loop wakes every tenth of a second, so time
\* does not pass a deadline before the loop has seen it.
Tick ==
    /\ \A t \in Threads : pc[t] \in {"idle", "lock", "poll"}
    /\ \E later \in Clock :
          /\ later > now
          /\ \A t \in Threads : pc[t] = "poll" => now < Deadline(t) /\ later <= Deadline(t)
          /\ now' = later
    /\ UNCHANGED <<shellSessions, lastActivity, shellLock, pc, call, procs, scratch,
                   nextSid, nextPid, nextFile, ncalls, hist>>
    /\ result' = NoResult
    /\ UNCHANGED <<pathVars, toolVars, httpVars, regVars, integVars, saveVars>>

ShellInit ==
    /\ shellSessions = <<>>
    /\ lastActivity = <<>>
    /\ shellLock = NoThread
    /\ pc = [t \in Threads |-> "idle"]
    /\ call = [t \in Threads |-> NoCall]
    /\ result = NoResult
    /\ procs = <<>>
    /\ scratch = <<>>
    /\ now = 0
    /\ nextSid = 0
    /\ nextPid = 0
    /\ nextFile = 0
    /\ ncalls = 0
    /\ hist = [everUsed |-> {}, spawned |-> <<>>, told |-> {}, failed |-> {}]

ShellNext ==
    \/ \E t \in Threads : Request(t)
    \/ \E t \in Threads : Enter(t)
    \/ \E t \in Threads : Exec(t)
    \/ \E t \in Threads : Poll(t)
    \/ \E t \in Threads : Finish(t)
    \/ \E pid \in DOMAIN procs : ShellRun(pid)
    \/ \E pid \in DOMAIN procs : ProcExit(pid)
    \/ Tick

(***************************************************************************)
(* The legacy HTTP server (server.py): check_auth, do_GET, do_POST,        *)
(* execute_tool and the six tool implementations behind it.  They act on   *)
(* the filesystem fs, in which a path may also have become a directory.    *)
(***************************************************************************)
TokenStart == 7

Bearer  == <<"B", "e", "a", "r", "e", "r", " ">>
API_KEY == <<"k", "1">>

\* The Authorization header values of the requests ("" when there is none).
AuthHeaders ==
    { <<>>,
      Bearer \o API_KEY,
      Bearer \o <<"k">>,
      Bearer \o <<"k", "1", "x">>,
      Bearer,
      <<"b", "e", "a", "r", "e", "r", " ">> \o API_KEY,
      <<"B", "e", "a", "r", "e", "r">> \o API_KEY,
      <<"B", "a", "s", "i", "c", " ">> \o API_KEY }

\* MCPHandler.check_auth
CheckAuthSchemeOnly(auth) == StartsWith(auth, Bearer)
CheckAuth(auth) ==
    IF StartsWith(auth, Bearer)
    THEN SubSeq(auth, TokenStart + 1, Len(auth)) = API_KEY
    ELSE FALSE

DirMark == "<dir>"
LegacyIsDir(f, p)  == IsDir(f, p) \/ (p \in FsFiles /\ f[p] = DirMark)
LegacyIsFile(f, p) == IsFile(f, p) /\ f[p] # DirMark

\* What a file holds after open(path, "a").write(content).
Appended(old, content) == "appended"

\* What a tool implementation hands back: {"result": ...} or {"error": ...}.
Dict(key, text) == [kind |-> "return", key |-> key, text |-> text]

\* args.get("path", ""): the path of the arguments, "" when there is none.
EmptyPath == [kind |-> "rel", comps |-> <<>>]
LegacyToolNames ==
    {"list_directory", "read_file", "create_file", "write_file",
     "append_to_file", "create_directory"}

\* The six execute_* functions; arguments is a mapping with a path and a
\* content, or no mapping at all (args.get then raises AttributeError).
ExecuteImpl(name, arguments, f) ==
    IF arguments.kind # "dict" THEN Effect(Throws("AttributeError"), f, {})
    ELSE LET v == LegacyValidatePath(arguments.path)
             content == arguments.content
         IN  IF v.kind = "raise" THEN Effect(Throws(v.exc), f, {})
             ELSE LET p == v.path
                      t == {p}
                  IN CASE name = "list_directory" ->
                            IF ~LegacyIsDir(f, p)
                            THEN Effect(Dict("error", "Not a directory"), f, t)
                            ELSE Effect(Dict("result", "Contents of"), f, t)
                       [] name = "read_file" ->
                            IF ~LegacyIsFile(f, p)
                            THEN Effect(Dict("error", "Not a file"), f, t)
                            ELSE Effect(Dict("result", f[p]), f, t)
                       [] name = "create_file" ->
                            IF Exists(f, p)
                            THEN Effect(Dict("error", "File already exists"), f, t)
                            ELSE Effect(Dict("result", "Created file"),
                                        [f EXCEPT ![p] = content], t)
                       [] name = "write_file" ->
                            IF LegacyIsDir(f, p)
                            THEN Effect(Throws("IsADirectoryError"), f, t)
                            ELSE Effect(Dict("result", IF Exists(f, p) THEN "Overwrote file"
                                                       ELSE "Created file"),
                                        [f EXCEPT ![p] = content], t)
                       [] name = "append_to_file" ->
                            IF ~LegacyIsFile(f, p)
                            THEN Effect(Dict("error", "File not found"), f, t)
                            ELSE Effect(Dict("result", "Appended to file"),
                                        [f EXCEPT ![p] = Appended(f[p], content)], t)
                       [] OTHER ->
                            IF LegacyIsDir(f, p)
                            THEN Effect(Dict("result", "Directory already exists"), f, t)
                            ELSE IF Exists(f, p)
                            THEN Effect(Dict("error", "Path exists but is not a directory"), f, t)
                            ELSE Effect(Dict("result", "Created directory"),
                                        [f EXCEPT ![p] = DirMark], t)

\* execute_tool: the implementation named, under try / except Exception.
\* The outcome carries the dictionary returned, the filesystem and the
\* implementation that ran.
ExecuteTool(name, arguments, f) ==
    IF name \notin LegacyToolNames
    THEN [out |-> Dict("error", "Unknown tool"), fs |-> f, touched |-> {}, ran |-> "none"]
    ELSE LET e == ExecuteImpl(name, arguments, f)
         IN  [out     |-> IF e.raw.kind = "raise" THEN Dict("error", e.raw.exc) ELSE e.raw,
              fs      |-> e.fs,
              touched |-> e.touched,
              ran     |-> name]

\* What the client gets: a JSON response (send_json), or nothing when the
\* handler raised and the connection was closed.
Response(status, keys, text) ==
    [kind |-> "response", status |-> status, keys |-> keys, text |-> text]
Dropped == [kind |-> "dropped"]

Handled(resp, f, t, ran) == [resp |-> resp, fs |-> f, touched |-> t, ran |-> ran]

\* Request bodies: text that is no JSON, JSON that is no object, and objects
\* with or without "name" and "arguments".
NoName == "<absent>"
NoArguments == [kind |-> "dict", path |-> EmptyPath, content |-> ""]
BadArguments == [kind |-> "other"]
Object(name, arguments) == [json |-> "object", name |-> name, arguments |-> arguments]
HttpRequest(method, path, auth, length, body) ==
    [method |-> method, path |-> path, auth |-> auth, length |-> length, body |-> body]

\* MCPHandler.do_GET
DoGet(req, f) ==
    IF ~CheckAuth(req.auth)
    THEN Handled(Response(401, {"error"}, "Unauthorized"), f, {}, "none")
    ELSE IF req.path = "/tools"
    THEN Handled(Response(200, {"tools"}, "TOOLS"), f, {}, "none")
    ELSE IF req.path = "/health"
    THEN Handled(Response(200, {"status", "version"}, "ok"), f, {}, "none")
    ELSE Handled(Response(404, {"error"}, "Not found"), f, {}, "none")

\* MCPHandler.do_POST.  int() of a Content-Length that is no number and
\* data.get of a JSON value that is no object raise, and nothing catches them.
DoPost(req, f) ==
    IF ~CheckAuth(req.auth)
    THEN Handled(Response(401, {"error"}, "Unauthorized"), f, {}, "none")
    ELSE IF req.path # "/execute"
    THEN Handled(Response(404, {"error"}, "Not found"), f, {}, "none")
    ELSE IF req.length = "bad"
    THEN Handled(Dropped, f, {}, "none")
    ELSE IF req.length = "missing" \/ req.body.json = "invalid"
    THEN Handled(Response(400, {"error"}, "Invalid JSON"), f, {}, "none")
    ELSE IF req.body.json # "object"
    THEN Handled(Dropped, f, {}, "none")
    ELSE IF req.body.name \in {NoName, ""}
    THEN Handled(Response(400, {"error"}, "Missing tool name"), f, {}, "none")
    ELSE LET e == ExecuteTool(req.body.name, req.body.arguments, f)
         IN  Handled(Response(200, {e.out.key}, e.out.text), e.fs, e.touched, e.ran)

(***************************************************************************)
(* Requests to the legacy server: each action is one request handled.      *)
(***************************************************************************)
AWrite    == Object("write_file", [kind |-> "dict", path |-> pF, content |-> "b"])

ToolCalls ==
    {Object(name, [kind |-> "dict", path |-> p, content |-> c]) :
        name \in LegacyToolNames, p \in {pF, pRoot, pUp, pLink, EmptyPath}, c \in Contents}
    \cup {Object(name, a) : name \in LegacyToolNames, a \in {NoArguments, BadArguments}}

OddBodies ==
    {[json |-> "invalid"], [json |-> "other"]}
    \cup {Object(name, a) : name \in {NoName, "", "nope"}, a \in {NoArguments, BadArguments}}

Serve(req, h) ==
    /\ httpReq' = req
    /\ httpResp' = h.resp
    /\ httpRan' = h.ran
    /\ fs' = h.fs
    /\ touched' = h.touched
    /\ UNCHANGED <<toolCall, toolRaw, toolOutcome>>
    /\ UNCHANGED <<pathVars, shellVars, regVars, integVars, saveVars>>

HandleGet ==
    \E auth \in AuthHeaders, path \in {"/tools", "/health", "/execute", "/other"} :
        LET req == HttpRequest("GET", path, auth, "missing", [json |-> "invalid"])
        IN  Serve(req, DoGet(req, fs))

HandlePost ==
    \/ \E auth \in AuthHeaders, path \in {"/tools", "/health", "/execute", "/other"} :
        LET req == HttpRequest("POST", path, auth, "ok", AWrite)
        IN  Serve(req, DoPost(req, fs))
    \/ \E length \in {"ok", "missing", "bad"}, body \in OddBodies \cup {AWrite} :
        LET req == HttpRequest("POST", "/execute", Bearer \o API_KEY, length, body)
        IN  Serve(req, DoPost(req, fs))
    \/ \E body \in ToolCalls :
        LET req == HttpRequest("POST", "/execute", Bearer \o API_KEY, "ok", body)
        IN  Serve(req, DoPost(req, fs))

HttpInit ==
    /\ httpReq = NotRun
    /\ httpResp = NotRun
    /\ httpRan = "none"

HttpNext ==
    \/ HandleGet
    \/ HandlePost

(***************************************************************************)
(* The tool registry (toolsets/base.py: the @tool decorator, get_tool) and *)
(* the toolset registry (toolsets/__init__.py).                            *)
(***************************************************************************)
MaxParams        == 2
MaxRegistrations == 3

None  == [kind |-> "none"]
\* inspect.Parameter.empty
Empty == "<empty>"

Params ==
    [name : {"a", "b", "self"}, annotation : {Empty, "str", "int", "Path"},
     default : {Empty, "None", "5"}]

\* The parameter lists of the decorated functions: no name occurs twice.
Signatures ==
    {sig \in SeqsUpTo(Params, MaxParams) :
        \A i \in 1 .. Len(sig) : \A j \in 1 .. (i - 1) : sig[i].name # sig[j].name}

ToolNames == {"read_file", "save_file"}

\* type_map.get(param.annotation, "string")
ParamType(annotation) ==
    CASE annotation = "str"   -> "string"
      [] annotation = "int"   -> "number"
      [] annotation = "float" -> "number"
      [] annotation = "bool"  -> "boolean"
      [] annotation = "list"  -> "array"
      [] annotation = "dict"  -> "object"
      [] OTHER                -> "string"

\* required = param.default == inspect.Parameter.empty
RequiredUnlessTruthy(default) == default \in {Empty, "None"}
IsRequired(default) == default = Empty

\* The ParameterDef of one parameter; "default" is an entry only of the
\* parameters that are not required.
ParamDef(param) ==
    LET base == [type        |-> ParamType(param.annotation),
                 description |-> IF param.name \in {"a"} THEN "described"
                                 ELSE "Parameter: " \o param.name,
                 required    |-> IsRequired(param.default)]
    IN  IF IsRequired(param.default) THEN base
        ELSE [k \in DOMAIN base \cup {"default"} |->
                 IF k = "default" THEN param.default ELSE base[k]]

\* The parameters of the ToolDefinition: one entry per parameter of the
\* signature other than self and cls.
DeriveParameters(sig) ==
    LET kept == {i \in 1 .. Len(sig) : sig[i].name \notin {"self", "cls"}}
    IN  [n \in {sig[i].name : i \in kept} |->
            ParamDef(sig[CHOOSE i \in kept : sig[i].name = n])]

\* The RegisteredTool the decorator builds; id tells the objects apart.
Registered(func, id) ==
    [id |-> id,
     definition |-> [name |-> func.name, parameters |-> DeriveParameters(func.params)]]

\* _all_tools[func.__name__] = registered
StoreToolIfAbsent(registry, name, registered) ==
    IF name \in DOMAIN registry THEN registry ELSE Put(registry, name, registered)
StoreTool(registry, name, registered) == Put(registry, name, registered)

\* get_tool: _all_tools.get(name)
GetTool(registry, name) == IF name \in DOMAIN registry THEN registry[name] ELSE None

\* register_toolset: _toolsets[name] = tools
ExtendToolset(sets, name, tools) ==
    Put(sets, name, (IF name \in DOMAIN sets THEN sets[name] ELSE <<>>) \o tools)
StoreToolset(sets, name, tools) == Put(sets, name, tools)

\* get_toolset: _toolsets.get(name, [])
GetToolset(sets, name) == IF name \in DOMAIN sets THEN sets[name] ELSE <<>>

ToolsetNames == {"system", "gmail"}

\* The functions decorated in SpecRegistry.
SomeFuncs ==
    {[name |-> "read_file", params |-> <<[name |-> "a", annotation |-> "str", default |-> Empty]>>],
     [name |-> "save_file", params |-> <<[name |-> "a", annotation |-> "str", default |-> Empty],
                                         [name |-> "b", annotation |-> "int", default |-> "5"]>>]}

\* @tool(...) applied to func: the definition is derived, the tool is
\* registered under the function's name and returned.
Decorate(func) ==
    /\ regCount < MaxRegistrations
    /\ LET registered == Registered(func, regCount + 1)
       IN  /\ allTools' = StoreTool(allTools, func.name, registered)
           /\ regOp' = [op |-> "tool", func |-> func, returned |-> registered]
           /\ regHist' = [regHist EXCEPT !.tools = Put(@, func.name, registered),
                                         !.again = IF func.name \in DOMAIN regHist.tools
                                                   THEN @ \cup {func.name} ELSE @]
    /\ regCount' = regCount + 1
    /\ UNCHANGED toolsets
    /\ UNCHANGED <<pathVars, toolVars, shellVars, httpVars, integVars, saveVars>>

\* The function drawn at the start is decorated.
DecorateDrawn == regOp.op = "drawn" /\ Decorate(regOp.func)

CallGetTool ==
    /\ \E name \in ToolNames \cup {"run_command"} :
          regOp' = [op |-> "get_tool", name |-> name, returned |-> GetTool(allTools, name)]
    /\ UNCHANGED <<allTools, toolsets, regCount, regHist>>
    /\ UNCHANGED <<pathVars, toolVars, shellVars, httpVars, integVars, saveVars>>

\* The lists of tools a toolset module hands over: tools it has decorated,
\* each at most once.
ToolLists ==
    LET tools == {allTools[n] : n \in DOMAIN allTools}
    IN  {list \in SeqsUpTo(tools, Cardinality(tools)) :
            \A i \in 1 .. Len(list) : \A j \in 1 .. (i - 1) : list[i] # list[j]}

CallRegisterToolset ==
    /\ \E name \in ToolsetNames, tools \in ToolLists :
          /\ toolsets' = StoreToolset(toolsets, name, tools)
          /\ regOp' = [op |-> "register_toolset", name |-> name, returned |-> None]
          /\ regHist' = [regHist EXCEPT !.sets = Put(@, name, tools),
                                         !.again = IF name \in DOMAIN regHist.sets
                                                   THEN @ \cup {name} ELSE @]
    /\ UNCHANGED <<allTools, regCount>>
    /\ UNCHANGED <<pathVars, toolVars, shellVars, httpVars, integVars, saveVars>>

CallGetToolset ==
    /\ \E name \in ToolsetNames \cup {"discord"} :
          regOp' = [op |-> "get_toolset", name |-> name,
                    returned |-> GetToolset(toolsets, name)]
    /\ UNCHANGED <<allTools, toolsets, regCount, regHist>>
    /\ UNCHANGED <<pathVars, toolVars, shellVars, httpVars, integVars, saveVars>>

RegInit ==
    /\ allTools = <<>>
    /\ toolsets = <<>>
    /\ regCount = 0
    /\ regOp = [op |-> "none"]
    /\ regHist = [tools |-> <<>>, sets |-> <<>>, again |-> {}]

RegDrawn ==
    /\ allTools = <<>>
    /\ toolsets = <<>>
    /\ regCount = 0
    /\ regOp \in [op : {"drawn"}, func : [name : ToolNames, params : Signatures]]
    /\ regHist = [tools |-> <<>>, sets |-> <<>>, again |-> {}]

RegistryNext ==
    \/ \E func \in SomeFuncs : Decorate(func)
    \/ CallGetTool
    \/ CallRegisterToolset
    \/ CallGetToolset


(***************************************************************************)
(* The client singletons of the integrations (integrations/*_client.py).   *)
(* A client is "none", or an object that is ready (connected,              *)
(* authenticated) or not; an error is "none" or a message.                 *)
(***************************************************************************)
Integrations == {"notion", "gmail", "discord"}

\* get_notion_client, get_gmail_client, get_discord_client.  configured: the
\* key, token or credentials file is there.  outcome: what constructing and
\* connecting does: "ok", "refused" (authenticate() or start() returns
\* False), "raise_init" (the constructor raises), "raise_connect" (the
\* constructor returns, and search(), authenticate() or start() raises).
GetClient(name, st, configured, outcome) ==
    LET Got(client, error, new, attempted) ==
            [client |-> client, error |-> error, attempted |-> attempted,
             st |-> [st EXCEPT !.client = new.client, !.error = new.error]]
        usable == IF name = "notion" THEN st.client # "none" ELSE st.client = "ready"
    IN  IF usable THEN Got(st.client, "none", st, FALSE)
        ELSE IF st.error # "none" THEN Got("none", st.error, st, FALSE)
        ELSE IF ~configured
        THEN Got("none", "not configured", [st EXCEPT !.error = "not configured"], FALSE)
        ELSE CASE outcome = "ok" ->
                    Got("ready", "none", [st EXCEPT !.client = "ready"], TRUE)
               [] outcome = "refused" ->
                    Got("none", "failed", [client |-> "none", error |-> "failed"], TRUE)
               [] outcome = "raise_init" ->
                    Got("none", "raised", [st EXCEPT !.error = "raised"], TRUE)
               [] OTHER ->
                    Got("none", "raised", [client |-> "unready", error |-> "raised"], TRUE)

\* One call of a getter.  search() of the Notion client returns or raises.
CallGetClient ==
    /\ \E name \in Integrations, configured \in BOOLEAN,
          outcome \in {"ok", "refused", "raise_init", "raise_connect"} :
          /\ name = "notion" => outcome # "refused"
          /\ LET got == GetClient(name, integ[name], configured, outcome)
             IN  /\ integ' = [integ EXCEPT ![name] =
                                [got.st EXCEPT !.told = IF @ = "none" THEN got.error ELSE @]]
                 /\ integOp' = [name |-> name, client |-> got.client, error |-> got.error,
                                attempted |-> got.attempted, told |-> integ[name].told]
    /\ UNCHANGED <<pathVars, toolVars, shellVars, httpVars, regVars, saveVars>>

IntegInit ==
    /\ integ = [name \in Integrations |-> [client |-> "none", error |-> "none", told |-> "none"]]
    /\ integOp = [name |-> "none", client |-> "none", error |-> "none",
                  attempted |-> FALSE, told |-> "none"]

(***************************************************************************)
(* save_file called from several threads (toolsets/system.py).  A call     *)
(* first validates the path and tests whether the file exists, then        *)
(* writes; calls of other threads may act in between.                      *)
(***************************************************************************)
NoSave == [pc |-> "idle", path |-> NoPath, content |-> "", overwrite |-> FALSE, result |-> "none"]

\* Lines 134-137: validate_path, and the test of resolved.exists().
SaveCheck(t) ==
    /\ saver[t].pc = "idle"
    /\ \E path \in {pF, pF1, pUp}, content \in Contents, overwrite \in BOOLEAN :
          LET v == ValidatePath(path)
              args == [NoSave EXCEPT !.path = path, !.content = content, !.overwrite = overwrite]
          IN  saver' = [saver EXCEPT ![t] =
                  IF v.kind = "raise" THEN [args EXCEPT !.result = "raised"]
                  ELSE IF Exists(fs, v.path) /\ ~overwrite THEN [args EXCEPT !.result = "Error"]
                  ELSE [args EXCEPT !.pc = "write"]]
    /\ UNCHANGED <<toolVars, pathVars, shellVars, httpVars, regVars, integVars>>

\* Lines 139-147: the parent directories, the write, and the string returned.
SaveWrite(t) ==
    /\ saver[t].pc = "write"
    /\ LET p == ValidatePath(saver[t].path).path
           g == [fs EXCEPT ![p] = saver[t].content]
       IN  /\ fs' = g
           /\ saver' = [saver EXCEPT ![t].pc = "idle",
                                     ![t].result = IF Exists(g, p) THEN "Overwrote" ELSE "Created"]
    /\ UNCHANGED <<toolCall, toolRaw, toolOutcome, touched>>
    /\ UNCHANGED <<pathVars, shellVars, httpVars, regVars, integVars>>

SaveInit == saver = [t \in Threads |-> NoSave]

(***************************************************************************)
(* The specifications.                                                     *)
(***************************************************************************)
InitPath      == PathInit /\ ToolInit /\ ShellInit /\ HttpInit /\ RegInit /\ IntegInit /\ SaveInit
InitTool      == PathIdle /\ ToolInit /\ ShellInit /\ HttpInit /\ RegInit /\ IntegInit /\ SaveInit
InitShell     == PathIdle /\ ToolInit /\ ShellInit /\ HttpInit /\ RegInit /\ IntegInit /\ SaveInit
InitHttp      == PathIdle /\ ToolInit /\ ShellInit /\ HttpInit /\ RegInit /\ IntegInit /\ SaveInit
InitRegistry  == PathIdle /\ ToolInit /\ ShellInit /\ HttpInit /\ RegInit /\ IntegInit /\ SaveInit
InitInteg     == PathIdle /\ ToolInit /\ ShellInit /\ HttpInit /\ RegInit /\ IntegInit /\ SaveInit
InitSave      == PathIdle /\ ToolInit /\ ShellInit /\ HttpInit /\ RegInit /\ IntegInit /\ SaveInit
InitDecorator == PathIdle /\ ToolInit /\ ShellInit /\ HttpInit /\ RegDrawn /\ IntegInit /\ SaveInit

SpecPath  == InitPath /\ [][PathNext]_vars
SpecTool  == InitTool /\ [][ToolNext]_vars
SpecShell == InitShell /\ [][ShellNext]_vars
SpecHttp      == InitHttp /\ [][HttpNext]_vars
SpecRegistry  == InitRegistry /\ [][RegistryNext]_vars
SpecDecorator == InitDecorator /\ [][DecorateDrawn]_vars
SpecInteg     == InitInteg /\ [][CallGetClient]_vars
SpecSave      == InitSave /\ [][\E t \in Threads : SaveCheck(t) \/ SaveWrite(t)]_vars

(***************************************************************************)
(* Properties of the tool executor and of path validation.                 *)
(***************************************************************************)

\* C1: the executor built by @tool never raises: it returns the string of the
\* wrapped function's result, or, when the function raised, a string that
\* starts with "Error: " and carries the traceback.
C1_ExecutorNeverRaises ==
    toolOutcome # NotRun =>
        /\ toolOutcome.kind = "return"
        /\ toolRaw.kind = "return" => toolOutcome.value = toolRaw.value
        /\ toolRaw.kind = "raise" =>
              toolOutcome.value.head = "Error: " /\ toolOutcome.value.trace

\* The root directory or a directory or file below it, going up parent by parent.
RECURSIVE IsRootOrDescendant(_)
IsRootOrDescendant(parts) ==
    \/ parts = BASE_DIR
    \/ parts # <<>> /\ IsRootOrDescendant(Parent(parts))

\* C2: Config.validate_path returns the resolved path exactly when the
\* canonical resolution of the argument (home expanded, made absolute, ".."
\* and symbolic links resolved) is the root or lies below it by whole
\* components, and raises ValueError otherwise.
C2_ValidatePathWholeComponents ==
    vpNew # NotRun =>
        IF IsRootOrDescendant(Resolve(vpPath))
        THEN vpNew = Ok(Resolve(vpPath))
        ELSE vpNew = Raised("ValueError")

\* Config.validate_path has refused a path whose string starts with the root's
\* string, and has accepted a path that reaches the root through a link from
\* outside it.
C2_Witness ==
    /\ vpNew = Raised("ValueError")
    /\ StartsWith(PathStr(Resolve(vpPath)), PathStr(BASE_DIR))
    /\ ValidatePath([kind |-> "abs", comps |-> <<cH, cU2, cL>>]) = Ok(<<cH, cU, cS>>)

\* C3: the legacy server's validate_path raises for every path that resolves
\* outside the root, a sibling of the root whose name starts with the root's
\* name included.
C3_LegacyRejectsOutside ==
    (vpLegacy # NotRun /\ ~IsRootOrDescendant(Resolve(vpPath))) =>
        vpLegacy = Raised("ValueError")

\* The resolved paths of the path arguments of the last tool call.
CalledPaths ==
    IF toolCall = NotRun THEN {}
    ELSE {Resolve(p) : p \in {toolCall.path, toolCall.path2} \ {NoPath}}

\* C4: every tool that takes a filesystem path validates it before it touches
\* the filesystem: a call with a path outside the root returns an error and
\* touches nothing.
C4_PathToolsValidateFirst ==
    (\E p \in CalledPaths : ~IsRootOrDescendant(p)) =>
        /\ toolOutcome.kind = "return"
        /\ toolOutcome.value.head = "Error: "
        /\ touched = {}

(***************************************************************************)
(* Properties of the shell session manager.                                *)
(***************************************************************************)

\* C5: a call with an empty session id and an empty command adds exactly one
\* session to the registry, under an id that was never in the registry before,
\* returns that id, and writes no command to the new process; the other
\* sessions and processes stay as they are.
C5_CreateAddsOneFreshSession ==
    [][\A t \in Threads, command \in Commands, timeout \in Timeouts :
          (Strip(command) = "" /\ PersistentShell(t, command, NoSid, timeout)) =>
              \E sid \in DOMAIN shellSessions' :
                  /\ sid \notin hist.everUsed
                  /\ sid \notin DOMAIN shellSessions
                  /\ DOMAIN shellSessions' = DOMAIN shellSessions \cup {sid}
                  /\ \A s \in DOMAIN shellSessions : shellSessions'[s] = shellSessions[s]
                  /\ result' = Msg("created", sid, <<>>, FALSE)
                  /\ shellSessions'[sid] \notin DOMAIN procs
                  /\ procs'[shellSessions'[sid]].stdin = <<>>
                  /\ \A p \in DOMAIN procs : procs'[p] = procs[p]]_vars

\* A session has just been created with an empty command, after an earlier
\* session was reaped: its id is not the reaped one and its process has been
\* given no command.
C5_Witness ==
    /\ result.kind = "created"
    /\ result.sid \in DOMAIN shellSessions
    /\ procs[shellSessions[result.sid]].stdin = <<>>
    /\ hist.told # {}
    /\ result.sid \notin hist.told

\* The lines of an input queue are in the order of the calls that wrote them.
InCallOrder(stdin) ==
    \A i \in 1 .. Len(stdin) : \A j \in 1 .. (i - 1) : stdin[j].cno < stdin[i].cno

\* C6: as long as an id is in the registry it maps to the process spawned when
\* the id was created, and every command executed under the id is written to
\* the input of that process, behind the commands of the earlier calls.
C6_CommandsReachTheSessionProcess ==
    [][/\ \A sid \in DOMAIN shellSessions' : shellSessions'[sid] = hist'.spawned[sid]
       /\ \A pid \in DOMAIN procs' :
             /\ InCallOrder(procs'[pid].stdin)
             /\ \A i \in 1 .. Len(procs'[pid].stdin) :
                   hist'.spawned[procs'[pid].stdin[i].sid] = pid
       /\ \A t \in Threads :
             (pc[t] = "exec" /\ pc'[t] = "poll") =>
                 LET pid == hist.spawned[call[t].sid]
                     old == procs[pid].stdin
                     new == procs'[pid].stdin
                 IN  /\ Len(new) = Len(old) + 1
                     /\ SubSeq(new, 1, Len(old)) = old
                     /\ new[Len(new)].command = call[t].command
                     /\ new[Len(new)].sid = call[t].sid]_vars

\* Two commands written under one session wait, in call order, in the input of
\* the session's process.
C6_Witness ==
    \E sid \in DOMAIN shellSessions :
        /\ Len(procs[shellSessions[sid]].stdin) >= 2
        /\ \A i \in 1 .. Len(procs[shellSessions[sid]].stdin) :
              procs[shellSessions[sid]].stdin[i].sid = sid

\* C7: a call with a non-empty session id that is not in the registry returns
\* the not-found message, spawns no process, writes no command and leaves the
\* registry unchanged.
C7_UnknownIdNotFound ==
    [][\A t \in Threads, command \in Commands, timeout \in Timeouts :
          \A session_id \in SessionArgs \ {NoSid} :
              (session_id \notin DOMAIN shellSessions
                  /\ PersistentShell(t, command, session_id, timeout)) =>
                  /\ result' = Msg("not_found", session_id, <<>>, FALSE)
                  /\ UNCHANGED <<shellSessions, lastActivity, procs, nextPid, scratch>>]_vars

\* A call with an id the server never issued has been answered with not-found
\* while a session was registered.
C7_Witness ==
    /\ result = Msg("not_found", BogusSid, <<>>, FALSE)
    /\ DOMAIN shellSessions # {}
    /\ \A pid \in DOMAIN procs : procs[pid].stdin = <<>>

\* C8 as stated: once the process of a session has exited, the next call on its
\* id returns the process-exited message and removes the id, and every later
\* call on the id returns not-found.  (hist.told holds the ids for which a
\* process-exited message has been returned.)
C8_ExitedThenNotFound ==
    [][\A t \in Threads, command \in Commands, timeout \in Timeouts :
          \A session_id \in hist.everUsed :
              (~procs[hist.spawned[session_id]].alive
                  /\ PersistentShell(t, command, session_id, timeout)) =>
                  IF session_id \in hist.told
                  THEN result'.kind = "not_found"
                  ELSE result'.kind = "exited" /\ session_id \notin DOMAIN shellSessions']_vars

\* C8, with the session still registered when the call is made: a call on a
\* registered id whose process has exited returns the process-exited message
\* and removes the id; every call on an id that has left the registry returns
\* not-found; and an id that has left the registry never enters it again.
C8_ExitedIdStaysInvalid ==
    [][/\ \A t \in Threads, command \in Commands, timeout \in Timeouts :
             \A session_id \in hist.everUsed :
                 PersistentShell(t, command, session_id, timeout) =>
                     IF session_id \notin DOMAIN shellSessions
                     THEN result' = Msg("not_found", session_id, <<>>, FALSE)
                     ELSE ~procs[shellSessions[session_id]].alive =>
                             /\ result'.kind = "exited"
                             /\ shellSessions' = Without(shellSessions, {session_id})
       /\ \A sid \in hist.everUsed \ DOMAIN shellSessions : sid \notin DOMAIN shellSessions']_vars

\* A call on an id has been answered with not-found after an earlier call on
\* it was answered with process-exited.
C8_Witness ==
    /\ result.kind = "not_found"
    /\ result.sid \in hist.told
    /\ ~procs[hist.spawned[result.sid]].alive
    /\ ~procs[hist.spawned[result.sid]].terminated

\* C9: a call whose command did not complete within its timeout returns the
\* output captured so far with the timed-out note, does not terminate the
\* session's process and leaves the session in the registry.
C9_TimeoutKeepsSession ==
    [][\A t \in Threads :
          (pc[t] = "finish" /\ pc'[t] = "idle"
              /\ now - call[t].start_time >= call[t].timeout) =>
              /\ result' = Msg("output", IF call[t].is_new THEN call[t].sid ELSE NoSid,
                               StripMarker(call[t].output, call[t].sid), TRUE)
              /\ call[t].sid \in DOMAIN shellSessions'
              /\ shellSessions'[call[t].sid] = hist.spawned[call[t].sid]
              /\ ~procs'[hist.spawned[call[t].sid]].terminated]_vars

\* C10: the mutex is not held while a call waits in the poll loop, so that a
\* call on another session can take it.
C10_PollOutsideMutex ==
    \A t \in Threads : pc[t] = "poll" => shellLock = NoThread


(***************************************************************************)
(* The legacy HTTP server (SpecHttp).                                      *)
(***************************************************************************)
\* The header the server accepts: "Bearer " followed by the configured key.
Authorized(auth) == auth = Bearer \o API_KEY

AuthedExecute ==
    /\ httpReq # NotRun
    /\ httpReq.method = "POST"
    /\ httpReq.path = "/execute"
    /\ Authorized(httpReq.auth)

\* C11: a GET or POST whose Authorization header is missing, does not start
\* with "Bearer " or carries another token is answered 401; it runs no tool
\* and leaves every file as it was.
C11_UnauthorizedIs401 ==
    [][~Authorized(httpReq'.auth) =>
          /\ httpResp' = Response(401, {"error"}, "Unauthorized")
          /\ httpRan' = "none"
          /\ touched' = {}
          /\ fs' = fs]_vars

\* A write_file sent to /execute with a token that only starts like the key
\* was answered 401.
C11_Witness ==
    /\ httpReq # NotRun
    /\ httpReq.method = "POST"
    /\ httpReq.path = "/execute"
    /\ httpReq.body = AWrite
    /\ httpReq.auth = Bearer \o API_KEY \o <<"x">>
    /\ httpResp.kind = "response"
    /\ httpResp.status = 401

\* C12: every authenticated POST /execute, whatever its body, gets a JSON
\* response whose only key is "result" or "error"; none is left unanswered.
C12_ExecuteAlwaysAnswered ==
    AuthedExecute =>
        /\ httpResp.kind = "response"
        /\ httpResp.keys \in {{"result"}, {"error"}}

\* C13: an execute request that names a tool the server does not have is
\* answered with status 404 and an error, and no implementation runs.
C13_UnknownToolIs404 ==
    (/\ AuthedExecute
     /\ httpReq.length = "ok"
     /\ httpReq.body.json = "object"
     /\ httpReq.body.name \notin LegacyToolNames \cup {NoName, ""}) =>
        /\ httpResp.kind = "response"
        /\ httpResp.status = 404
        /\ httpResp.keys = {"error"}
        /\ httpRan = "none"


(***************************************************************************)
(* The registries (SpecRegistry) and the decorator (SpecDecorator).        *)
(***************************************************************************)
\* C14: get_tool(name) returns the tool registered last under the name,
\* nothing for a name never registered, and so a registration under one name
\* leaves what every other name returns as it was.
C14_GetToolLastWins ==
    \A name \in ToolNames \cup {"run_command"} :
        GetTool(allTools, name) =
            IF name \in DOMAIN regHist.tools THEN regHist.tools[name] ELSE None

\* get_tool returned the third tool created, registered over an earlier tool
\* of the same name, while the other name still holds the first tool.
C14_Witness ==
    /\ regOp.op = "get_tool"
    /\ regOp.name = "read_file"
    /\ "read_file" \in regHist.again
    /\ regOp.returned # None
    /\ regOp.returned.id = 3
    /\ GetTool(allTools, "save_file") # None
    /\ GetTool(allTools, "save_file").id = 1

\* The parameters of the decorated function that the definition describes.
Described_Params(func) ==
    {func.params[i] : i \in {j \in 1 .. Len(func.params) :
                                func.params[j].name \notin {"self", "cls"}}}

\* C15: in the definition derived by the decorator each parameter is
\* required exactly when it declares no default, and has a "default" entry
\* exactly when it declares one, equal to the declared default.
C15_RequiredIffNoDefault ==
    regOp.op = "tool" =>
        LET derived == regOp.returned.definition.parameters
        IN  /\ DOMAIN derived = {param.name : param \in Described_Params(regOp.func)}
            /\ \A param \in Described_Params(regOp.func) :
                  LET def == derived[param.name]
                  IN  /\ def.required = (param.default = Empty)
                      /\ ("default" \in DOMAIN def) = (param.default # Empty)
                      /\ param.default # Empty => def.default = param.default

\* A function with a required parameter and a parameter whose default is
\* None has been decorated.
C15_Witness ==
    /\ regOp.op = "tool"
    /\ Len(regOp.func.params) = 2
    /\ regOp.func.params[1].default = Empty
    /\ regOp.func.params[2].default = "None"
    /\ regOp.returned.definition.parameters[regOp.func.params[1].name].required
    /\ ~regOp.returned.definition.parameters[regOp.func.params[2].name].required

\* C16: get_toolset(name) returns the list registered last under the name,
\* the empty list for a name never registered, and so a registration under
\* one name leaves what every other name returns as it was.
C16_GetToolsetLastWins ==
    \A name \in ToolsetNames \cup {"discord"} :
        GetToolset(toolsets, name) =
            IF name \in DOMAIN regHist.sets THEN regHist.sets[name] ELSE <<>>

\* get_toolset returned a one-tool list registered over an earlier list of
\* the same name, while the other toolset still holds its two tools.
C16_Witness ==
    /\ regOp.op = "get_toolset"
    /\ regOp.name = "system"
    /\ "system" \in regHist.again
    /\ Len(regOp.returned) = 1
    /\ Len(GetToolset(toolsets, "gmail")) = 2
    /\ GetToolset(toolsets, "discord") = <<>>


(***************************************************************************)
(* Argument errors and execution failures (SpecTool).                      *)
(***************************************************************************)
\* The form of an outcome: returned or raised, the prefix of the text and
\* whether a traceback follows; the message itself is left out.
Form(outcome) ==
    [kind |-> outcome.kind, head |-> outcome.value.head, trace |-> outcome.value.trace]

\* C17: a call whose arguments do not fit the tool is reported in another
\* form than a call in which the tool's own code raised.
C17_ArgumentErrorsDistinct ==
    [][(/\ toolCall # NotRun
        /\ toolCall.shape # "ok"
        /\ toolCall'.shape = "ok"
        /\ toolRaw'.kind = "raise"
        /\ IsException(toolRaw'.exc)) => Form(toolOutcome') # Form(toolOutcome)]_vars


(***************************************************************************)
(* The done marker and idle reaping (SpecShell).                           *)
(***************************************************************************)
\* C18: when the command of a call has finished before the timeout (the poll
\* loop has read its output), the call returns that output without the
\* marker and without the time-out note.
C18_FinishedCommandNotTimedOut ==
    [][\A t \in Threads :
          (pc[t] = "finish" /\ pc'[t] = "idle" /\ call[t].output # <<>>) =>
              /\ result'.kind = "output"
              /\ result'.text = StripMarker(call[t].output, call[t].sid)
              /\ ~result'.timed_out]_vars

\* C19: the markers of two executions differ, and the output of the command
\* a call wrote does not contain the marker of that call.
C19_MarkerUniqueAndUnguessable ==
    /\ \A pid \in DOMAIN procs :
          \A i, j \in 1 .. Len(procs[pid].stdin) :
              procs[pid].stdin[i].cno # procs[pid].stdin[j].cno =>
                  Marker(procs[pid].stdin[i].sid) # Marker(procs[pid].stdin[j].sid)
    /\ \A t \in Threads :
          pc[t] \in {"poll", "finish"} =>
              ~HasMarker(CommandOutput([command |-> call[t].command, sid |-> call[t].sid]),
                         call[t].sid)

\* The session of the call that returns in this step: the one it looked up
\* and removed, or the one it ran its command in.
OwnSession(t) ==
    IF pc[t] = "lock" THEN DOMAIN shellSessions \ DOMAIN shellSessions'
    ELSE {call[t].sid}

\* C20: when a call on a session returns, every other session that has been
\* idle for more than IdleLimit seconds has left the registry and its process
\* has been terminated.
C20_EveryExecuteReapsIdle ==
    [][\A t \in Threads :
          (/\ pc[t] # "idle"
           /\ pc'[t] = "idle"
           /\ result'.kind \in {"output", "exited", "exited_unexpectedly", "error"}) =>
              \A s \in DOMAIN shellSessions \ OwnSession(t) :
                  now - lastActivity[s] > IdleLimit =>
                      /\ s \notin DOMAIN shellSessions'
                      /\ procs'[shellSessions[s]].terminated]_vars


(***************************************************************************)
(* The error path, the mutex and the two maps of the session manager       *)
(* (SpecShell).                                                            *)
(***************************************************************************)
\* C21: when creating the scratch file or writing the command raises, the
\* call returns an error, the session leaves both maps and its process no
\* longer runs (it is terminated if it was running); every later call with
\* the id returns not-found.  (hist.failed holds the ids of these sessions.)
C21_ErrorRemovesSession ==
    [][/\ \A t \in Threads :
             (pc[t] = "exec" /\ pc'[t] = "idle") =>
                 LET sid == call[t].sid
                     pid == shellSessions[sid]
                 IN  /\ result'.kind = "error"
                     /\ sid \notin DOMAIN shellSessions'
                     /\ sid \notin DOMAIN lastActivity'
                     /\ ~procs'[pid].alive
                     /\ procs[pid].alive => procs'[pid].terminated
       /\ \A t \in Threads, command \in Commands, timeout \in Timeouts :
             \A session_id \in hist.failed :
                 PersistentShell(t, command, session_id, timeout) =>
                     /\ result' = Msg("not_found", session_id, <<>>, FALSE)
                     /\ UNCHANGED <<shellSessions, procs>>]_vars

\* A call on an id has been answered with not-found after an earlier call on
\* it failed and its running process was terminated.
C21_Witness ==
    /\ result.kind = "not_found"
    /\ result.sid \in hist.failed
    /\ procs[hist.spawned[result.sid]].terminated


\* C22: every step that changes the process map or the last-activity map is
\* taken by a thread that holds the mutex, or takes the free mutex in that
\* step, while no other thread is inside persistent_shell.
C22_MutationsUnderMutex ==
    [][(shellSessions' # shellSessions \/ lastActivity' # lastActivity) =>
          \E t \in Threads :
              /\ pc'[t] # pc[t]
              /\ IF pc[t] = "lock" THEN shellLock = NoThread ELSE shellLock = t
              /\ \A u \in Threads \ {t} : pc'[u] = pc[u] /\ pc[u] \in {"idle", "lock"}]_vars

\* A call has just returned output after idle reclamation removed and
\* terminated another session, while a second call was waiting for the mutex.
C22_Witness ==
    /\ result.kind = "output"
    /\ shellLock = NoThread
    /\ \E u \in Threads : pc[u] = "lock"
    /\ \E sid \in hist.everUsed \ (hist.told \cup hist.failed) :
          /\ sid \notin DOMAIN shellSessions
          /\ sid \notin DOMAIN lastActivity
          /\ procs[hist.spawned[sid]].terminated


\* C23: calls are not serialized against each other: while one call is in
\* its poll loop, a call that waits to enter can enter (and so write its own
\* command line before the first call has finished polling).
C23_CallsNotSerialized ==
    \A t, u \in Threads :
        (pc[t] = "poll" /\ pc[u] = "lock") => ENABLED Enter(u)


\* C26: whenever no call is inside persistent_shell, the process map and the
\* last-activity map hold the same session ids.
C26_MapsHaveSameIds ==
    (\A t \in Threads : pc[t] \in {"idle", "lock"}) =>
        DOMAIN shellSessions = DOMAIN lastActivity

\* C27: a call that returns command output, completed or timed out, leaves
\* its own session in the registry, and idle reclamation has not terminated
\* the process of that session.
C27_NeverReapsOwnSession ==
    [][\A t \in Threads :
          (pc[t] = "finish" /\ pc'[t] = "idle" /\ result'.kind = "output") =>
              /\ call[t].sid \in DOMAIN shellSessions'
              /\ call[t].sid \in DOMAIN lastActivity'
              /\ procs'[shellSessions[call[t].sid]].terminated =
                     procs[shellSessions[call[t].sid]].terminated]_vars


\* The sessions spawned by the call of thread t that returns in this step.
SpawnedBy(t) ==
    IF pc[t] = "lock" THEN DOMAIN shellSessions' \ DOMAIN shellSessions
    ELSE IF call[t].is_new THEN {call[t].sid} ELSE {}

\* C28: when a call that spawned a session returns and the session is still
\* in the registry, the call returns the id of the session.
C28_NewSessionIdReturned ==
    [][\A t \in Threads :
          (pc[t] # "idle" /\ pc'[t] = "idle") =>
              \A sid \in SpawnedBy(t) \cap DOMAIN shellSessions' : result'.sid = sid]_vars


\* C29: when a call returns, the scratch file it created no longer exists.
C29_ScratchFileDeleted ==
    [][\A t \in Threads :
          (pc[t] # "idle" /\ pc'[t] = "idle") =>
              \A file \in DOMAIN scratch' :
                  (file = call[t].file \/ file \notin DOMAIN scratch) =>
                      ~scratch'[file].exists]_vars


(***************************************************************************)
(* The integration clients (SpecInteg) and concurrent saves (SpecSave).    *)
(***************************************************************************)
\* C24: once the getter of an integration has returned an error, every later
\* call of it returns no client and the same error, and neither constructs a
\* client nor connects.  (told is the error the getter returned first.)
C24_InitErrorCached ==
    (integOp.name # "none" /\ integOp.told # "none") =>
        /\ integOp.client = "none"
        /\ integOp.error = integOp.told
        /\ ~integOp.attempted

\* C25: a save_file call made with overwrite = false never writes over a file
\* that exists, so of several such calls on a new path at most one writes.
C25_NoOverwriteWithoutFlag ==
    [][\A t \in Threads :
          (saver[t].pc = "write" /\ saver'[t].pc = "idle" /\ ~saver[t].overwrite) =>
              ~Exists(fs, ValidatePath(saver[t].path).path)]_vars


\* C30: a save_file call that wrote reports "Created" exactly when no file
\* was at the path before the call, and "Overwrote" exactly when one was.
C30_CreatedOrOverwrote ==
    [][(/\ toolCall'.tool = "save_file"
        /\ toolOutcome'.kind = "return"
        /\ toolOutcome'.value.head \in {"Created", "Overwrote"}) =>
           \A p \in touched' :
               /\ (toolOutcome'.value.head = "Created") = ~Exists(fs, p)
               /\ (toolOutcome'.value.head = "Overwrote") = Exists(fs, p)]_vars

====
